---- MODULE Spec2Model ----
(***************************************************************************)
(* Model of app.py, the Nifty Stock Price Visualizer: a Streamlit script   *)
(* that is re-executed top to bottom on every interaction.  One process    *)
(* holds the st.cache_data cache of load_data and one browser session      *)
(* holds the state of the two selectbox widgets.  The file system is the   *)
(* environment: the CSV at file_path exists or not.                         *)
(***************************************************************************)
EXTENDS Integers, Sequences, FiniteSets, TLC

(* ------------------------------ bounds -------------------------------- *)

\* most data rows in a generated file
MaxRows == 12
\* most rows the environment appends to the file
MaxAppends == 1
\* file reads after which no further re-run is started
MaxReads == 2

(* ------------------------- program constants -------------------------- *)

\* file_path = "Nifty_Stocks.csv"
file_path == "Nifty_Stocks.csv"
\* symbol_df.tail(10)
TailN == 10

(* --------------------------- value universe --------------------------- *)

None == [kind |-> "None"]
Unset == [kind |-> "unset"]
DataFrame(rows) == [kind |-> "DataFrame", rows |-> rows]

\* a script variable holding a string that the run has not assigned yet
NotBound == "<unbound>"
\* the value a selectbox returns when it has no options
NoSelection == "<None>"

\* (Category, Symbol) pairs of the generated files: the spec's scenario
\* (TCS and INFY under IT), one symbol listed under a second category too
Pairs ==
  { [Category |-> "IT", Symbol |-> "TCS"],
    [Category |-> "IT", Symbol |-> "INFY"],
    [Category |-> "Banking", Symbol |-> "TCS"] }

\* the orders in which a file lists some or all of the pairs
Patterns ==
  { p \in UNION { [1..n -> Pairs] : n \in 1..Cardinality(Pairs) } :
      \A i, j \in 1..Len(p) : i # j => p[i] # p[j] }

\* text of the Date cell of data row i: not in calendar order down the file
RawDate(i) == [type |-> "str", y |-> 2024, m |-> 1, d |-> ((i * 5) % 28) + 1]
\* a Date cell no date parser accepts
BadDate == [type |-> "str", y |-> 2024, m |-> 13, d |-> 1]

RawRow(p, i) ==
  [idx |-> i - 1, Date |-> RawDate(i), Symbol |-> p[((i - 1) % Len(p)) + 1].Symbol,
   Category |-> p[((i - 1) % Len(p)) + 1].Category, Close |-> 100 + ((i * 3) % 7)]

\* a well-formed CSV of n data rows cycling through pattern p
CsvFile(p, n) ==
  [format |-> "csv", columns |-> {"Date", "Symbol", "Category", "Close"},
   rows |-> [i \in 1..n |-> RawRow(p, i)]]

ValidFiles == { CsvFile(p, n) : p \in Patterns, n \in 0..MaxRows }

\* files whose read or parse fails: not a CSV at all, a CSV without a Date
\* column, a CSV whose first Date cell is not a date
BrokenFiles ==
  { [format |-> "garbage", columns |-> {}, rows |-> << >>] }
  \cup { [f EXCEPT !.columns = @ \ {"Date"}] : f \in { CsvFile(p, Len(p)) : p \in Patterns } }
  \cup { [f EXCEPT !.rows[1].Date = BadDate] : f \in { CsvFile(p, Len(p)) : p \in Patterns } }

Files == ValidFiles \cup BrokenFiles

(* ------------------------------ load_data ----------------------------- *)

Returned(v) == [outcome |-> "return", value |-> v]
Raised(e) == [outcome |-> "raise", exc |-> e]

\* whether the date parser accepts the text of a Date cell
IsDateText(c) == c.type = "str" /\ c.m \in 1..12 /\ c.d \in 1..31

\* pd.to_datetime on one cell: text to a chronological value (a day count)
to_datetime(c) == [type |-> "datetime64", ord |-> ((c.y * 12) + (c.m - 1)) * 31 + c.d]

\* df['Date'] = pd.to_datetime(df['Date'])
ConvertDates(rows) == [i \in 1..Len(rows) |-> [rows[i] EXCEPT !.Date = to_datetime(@)]]

\* load_data with `except Exception`: every failure becomes None
load_data_body_CatchAll(exists, content) ==
  IF ~exists THEN Returned(None)
  ELSE IF \/ content.format # "csv"
          \/ "Date" \notin content.columns
          \/ \E i \in 1..Len(content.rows) : ~IsDateText(content.rows[i].Date)
    THEN Returned(None)
  ELSE Returned(DataFrame(ConvertDates(content.rows)))

\* the body of load_data run on the file system (exists, content):
\* FileNotFoundError is caught and becomes None, every other failure is raised
load_data_body(exists, content) ==
  IF ~exists THEN Returned(None)
  ELSE IF content.format # "csv" THEN Raised("ParserError")
  ELSE IF "Date" \notin content.columns THEN Raised("KeyError")
  ELSE IF \E i \in 1..Len(content.rows) : ~IsDateText(content.rows[i].Date)
    THEN Raised("ValueError")
  ELSE Returned(DataFrame(ConvertDates(content.rows)))

\* st.cache_data: the entry stored under the arguments of the call, if any
CacheLookup(c, path) == c[path]

\* a cache that does not keep a None result
CacheStore_SkipNone(c, path, res) ==
  IF res.outcome = "return" /\ res.value # None THEN [c EXCEPT ![path] = res.value] ELSE c

\* st.cache_data: a returned value, None included, is stored under the
\* arguments; a call that raises stores nothing
CacheStore(c, path, res) ==
  IF res.outcome = "return" THEN [c EXCEPT ![path] = res.value] ELSE c

(* ------------------------- filters and widgets ------------------------ *)

RECURSIVE UniqueFrom(_, _)
UniqueFrom(s, acc) ==
  IF s = << >> THEN acc
  ELSE UniqueFrom(Tail(s),
                  IF \E k \in 1..Len(acc) : acc[k] = Head(s) THEN acc ELSE Append(acc, Head(s)))

\* Series.unique(): the distinct values in order of first appearance
Unique(s) == UniqueFrom(s, << >>)

CategoryColumn(rows) == [i \in 1..Len(rows) |-> rows[i].Category]
SymbolColumn(rows) == [i \in 1..Len(rows) |-> rows[i].Symbol]

\* the Category filter with the comparison inverted
CategoryFilter_Ne(rows, c) == SelectSeq(rows, LAMBDA r : r.Category # c)

\* df[df['Category'] == selected_category]
CategoryFilter(rows, c) == SelectSeq(rows, LAMBDA r : r.Category = c)

\* df[df['Symbol'] == selected_symbol]
SymbolFilter(rows, s) == SelectSeq(rows, LAMBDA r : r.Symbol = s)

\* head(n) in place of tail(n)
TailRows_Head(rows, n) == IF Len(rows) <= n THEN rows ELSE SubSeq(rows, 1, n)

\* DataFrame.tail(n)
TailRows(rows, n) ==
  IF Len(rows) <= n THEN rows ELSE SubSeq(rows, Len(rows) - n + 1, Len(rows))

\* the position a selectbox shows: the one kept in the session when the widget
\* was drawn with the same options in the previous run, else the default, the
\* first option
SelectboxIndex(w, options) == IF w.options = options THEN w.index ELSE 1

\* the value st.selectbox returns
SelectboxValue(w, options) ==
  IF options = << >> THEN NoSelection ELSE options[SelectboxIndex(w, options)]

\* the widget state the session keeps after the selectbox was drawn
SelectboxState(w, options) == [options |-> options, index |-> SelectboxIndex(w, options)]

\* a widget not drawn yet in the session
NewWidget == [options |-> << >>, index |-> 1]

\* load_data without the decorator: the body runs on every call
load_data_Uncached(c, path, exists, content) ==
  [res |-> load_data_body(exists, content),
   cache |-> CacheStore(c, path, load_data_body(exists, content)),
   read |-> TRUE]

\* load_data under @st.cache_data, called on the cache c and the file system:
\* the stored entry when there is one, else the body's outcome, stored if it
\* is a return; read tells whether the body ran
load_data(c, path, exists, content) ==
  IF CacheLookup(c, path) # Unset
  THEN [res |-> Returned(CacheLookup(c, path)), cache |-> c, read |-> FALSE]
  ELSE [res |-> load_data_body(exists, content),
        cache |-> CacheStore(c, path, load_data_body(exists, content)),
        read |-> TRUE]

(* ----------------------------- UI elements ---------------------------- *)

Title == [el |-> "title", text |-> "Nifty Stock Price Visualizer"]
ErrorBox == [el |-> "error", text |-> "Error: The data file was not found."]
InfoBox(path) == [el |-> "info", path |-> path]
SidebarHeader == [el |-> "sidebar.header", text |-> "Select Your Stock"]
Selectbox(label, options, value) ==
  [el |-> "selectbox", label |-> label, options |-> options, value |-> value]
Header(symbol) == [el |-> "header", symbol |-> symbol]
Markdown(category) == [el |-> "markdown", category |-> category]
Subheader(text) == [el |-> "subheader", text |-> text]
DataTable(rows) == [el |-> "dataframe", rows |-> rows]
\* the line plot: x='Date', y='Close', data=symbol_df, titled with the symbol
Pyplot(symbol, rows) ==
  [el |-> "pyplot", title |-> symbol,
   data |-> [i \in 1..Len(rows) |-> [idx |-> rows[i].idx, x |-> rows[i].Date, y |-> rows[i].Close]]]

HasEl(o, t) == \E i \in 1..Len(o) : o[i].el = t
ElsOf(o, t) == SelectSeq(o, LAMBDA e : e.el = t)

(* -------------------------------- state ------------------------------- *)

VARIABLES
  exists,             \* file system: whether a file is at file_path
  content,            \* file system: what the file at file_path holds
  appends,            \* file system: how many rows were appended to the file
  cache,              \* st.cache_data entries of load_data, by path
  reads,              \* how many times the body of load_data has run
  first_return,       \* the first value load_data returned in the process
  existed_at_load,    \* whether the file existed when this run called load_data
  cat_widget,         \* session state of the Category selectbox
  sym_widget,         \* session state of the Symbol selectbox
  pc,                 \* position of the current script run
  exc,                \* the exception that ended the run, if any
  df, category_list, selected_category, category_df,
  symbol_list, selected_symbol, symbol_df,   \* the script's variables
  out,                \* the elements the current run has drawn
  seen                \* the finished renders of the process: selection and output

fs == <<exists, content, appends>>
session == <<cat_widget, sym_widget>>
locals == <<df, category_list, selected_category, category_df,
            symbol_list, selected_symbol, symbol_df>>
ghost == <<first_return, existed_at_load, seen>>
vars == <<fs, cache, reads, session, pc, exc, locals, out, ghost>>

Paths == {file_path}

Init ==
  /\ exists \in BOOLEAN
  /\ content \in Files
  /\ appends = 0
  /\ cache = [p \in Paths |-> Unset]
  /\ reads = 0
  /\ first_return = Unset
  /\ existed_at_load = FALSE
  /\ cat_widget = NewWidget
  /\ sym_widget = NewWidget
  /\ pc = "run"
  /\ exc = None
  /\ df = Unset
  /\ category_list = << >>
  /\ selected_category = NotBound
  /\ category_df = << >>
  /\ symbol_list = << >>
  /\ selected_symbol = NotBound
  /\ symbol_df = << >>
  /\ out = << >>
  /\ seen = {}

(* ------------------------------- actions ------------------------------ *)

\* the state a script run starts from: nothing drawn, no variable assigned
StartRun ==
  /\ reads < MaxReads
  /\ pc' = "run"
  /\ exc' = None
  /\ df' = Unset
  /\ category_list' = << >>
  /\ selected_category' = NotBound
  /\ category_df' = << >>
  /\ symbol_list' = << >>
  /\ selected_symbol' = NotBound
  /\ symbol_df' = << >>
  /\ out' = << >>
  /\ UNCHANGED <<fs, cache, reads, ghost>>

\* the user asks for a re-run of a finished or failed run without changing a widget
Rerun ==
  /\ pc \in {"rendered", "failed"}
  /\ StartRun
  /\ UNCHANGED session

\* the user picks another option of the Category selectbox: the session keeps
\* it and the script is run again from the top
ChooseCategory ==
  /\ pc = "rendered"
  /\ HasEl(out, "selectbox")
  /\ \E i \in 1..Len(category_list) :
       /\ i # cat_widget.index
       /\ cat_widget' = [cat_widget EXCEPT !.index = i]
  /\ StartRun
  /\ UNCHANGED sym_widget

\* the user picks another option of the Symbol selectbox
ChooseSymbol ==
  /\ pc = "rendered"
  /\ HasEl(out, "selectbox")
  /\ \E i \in 1..Len(symbol_list) :
       /\ i # sym_widget.index
       /\ sym_widget' = [sym_widget EXCEPT !.index = i]
  /\ StartRun
  /\ UNCHANGED cat_widget

\* st.title(...); df = load_data(file_path)
LoadData ==
  /\ pc = "run"
  /\ LET call == load_data(cache, file_path, exists, content) IN
       /\ cache' = call.cache
       /\ reads' = IF call.read THEN reads + 1 ELSE reads
       /\ existed_at_load' = exists
       /\ IF call.res.outcome = "return"
          THEN /\ df' = call.res.value
               /\ pc' = "loaded"
               /\ exc' = None
               /\ first_return' = IF first_return = Unset THEN call.res.value ELSE first_return
          ELSE /\ df' = Unset
               /\ pc' = "failed"
               /\ exc' = [kind |-> call.res.exc]
               /\ first_return' = first_return
  /\ out' = <<Title>>
  /\ UNCHANGED <<fs, session, seen, category_list, selected_category, category_df,
                 symbol_list, selected_symbol, symbol_df>>

\* the error branch without its else: the run goes on to draw a table and a chart
ShowError_FallThrough ==
  /\ pc = "loaded"
  /\ df = None
  /\ out' = out \o <<ErrorBox, InfoBox(file_path), Subheader("Recent Stock Data"),
                     DataTable(<< >>), Subheader("Closing Price History"),
                     Pyplot(selected_symbol, << >>)>>
  /\ pc' = "rendered"
  /\ seen' = seen \cup {[table |-> df, category |-> selected_category,
                         symbol |-> selected_symbol, out |-> out']}
  /\ UNCHANGED <<fs, cache, reads, session, exc, locals, first_return, existed_at_load>>

\* if df is None: st.error(...); st.info(... file_path ...)
ShowError ==
  /\ pc = "loaded"
  /\ df = None
  /\ out' = out \o <<ErrorBox, InfoBox(file_path)>>
  /\ pc' = "rendered"
  /\ seen' = seen \cup {[table |-> df, category |-> selected_category,
                         symbol |-> selected_symbol, out |-> out']}
  /\ UNCHANGED <<fs, cache, reads, session, exc, locals, first_return, existed_at_load>>

\* else: sidebar header; category_list = df['Category'].unique();
\* selected_category = st.sidebar.selectbox(..., options=category_list)
SelectCategory ==
  /\ pc = "loaded"
  /\ df # None
  /\ category_list' = Unique(CategoryColumn(df.rows))
  /\ selected_category' = SelectboxValue(cat_widget, category_list')
  /\ cat_widget' = SelectboxState(cat_widget, category_list')
  /\ out' = out \o <<SidebarHeader,
                     Selectbox("Select a Category:", category_list', selected_category')>>
  /\ pc' = "category"
  /\ UNCHANGED <<fs, cache, reads, sym_widget, exc, df, category_df,
                 symbol_list, selected_symbol, symbol_df, ghost>>

\* the Symbol control filled from the whole table instead of category_df
SelectSymbol_AllSymbols ==
  /\ pc = "category"
  /\ category_df' = CategoryFilter(df.rows, selected_category)
  /\ symbol_list' = Unique(SymbolColumn(df.rows))
  /\ selected_symbol' = SelectboxValue(sym_widget, symbol_list')
  /\ sym_widget' = SelectboxState(sym_widget, symbol_list')
  /\ out' = out \o <<Selectbox("Select a Stock Symbol:", symbol_list', selected_symbol')>>
  /\ pc' = "symbol"
  /\ UNCHANGED <<fs, cache, reads, cat_widget, exc, df, category_list,
                 selected_category, symbol_df, ghost>>

\* category_df = df[df['Category'] == selected_category];
\* symbol_list = category_df['Symbol'].unique();
\* selected_symbol = st.sidebar.selectbox(..., options=symbol_list)
SelectSymbol ==
  /\ pc = "category"
  /\ category_df' = CategoryFilter(df.rows, selected_category)
  /\ symbol_list' = Unique(SymbolColumn(category_df'))
  /\ selected_symbol' = SelectboxValue(sym_widget, symbol_list')
  /\ sym_widget' = SelectboxState(sym_widget, symbol_list')
  /\ out' = out \o <<Selectbox("Select a Stock Symbol:", symbol_list', selected_symbol')>>
  /\ pc' = "symbol"
  /\ UNCHANGED <<fs, cache, reads, cat_widget, exc, df, category_list,
                 selected_category, symbol_df, ghost>>

\* the Symbol filter assigned back to df: df = df[df['Symbol'] == selected_symbol]
FilterSymbol_Rebind ==
  /\ pc = "symbol"
  /\ symbol_df' = SymbolFilter(df.rows, selected_symbol)
  /\ df' = DataFrame(symbol_df')
  /\ out' = out \o <<Header(selected_symbol), Markdown(selected_category)>>
  /\ pc' = "filtered"
  /\ UNCHANGED <<fs, cache, reads, session, exc, category_list, selected_category,
                 category_df, symbol_list, selected_symbol, ghost>>

\* st.header(... selected_symbol); st.markdown(... selected_category);
\* symbol_df = df[df['Symbol'] == selected_symbol]
FilterSymbol ==
  /\ pc = "symbol"
  /\ symbol_df' = SymbolFilter(df.rows, selected_symbol)
  /\ out' = out \o <<Header(selected_symbol), Markdown(selected_category)>>
  /\ pc' = "filtered"
  /\ UNCHANGED <<fs, cache, reads, session, exc, df, category_list, selected_category,
                 category_df, symbol_list, selected_symbol, ghost>>

\* the plot drawn on pyplot's process-wide figure instead of a new one: the
\* lines of the earlier renders stay on it
Present_SharedFigure ==
  /\ pc = "filtered"
  /\ out' = out \o <<Subheader("Recent Stock Data"), DataTable(TailRows(symbol_df, TailN)),
                     Subheader("Closing Price History"),
                     Pyplot(selected_symbol,
                            IF seen = {} THEN symbol_df ELSE symbol_df \o symbol_df)>>
  /\ pc' = "rendered"
  /\ seen' = seen \cup {[table |-> df, category |-> selected_category,
                         symbol |-> selected_symbol, out |-> out']}
  /\ UNCHANGED <<fs, cache, reads, session, exc, locals, first_return, existed_at_load>>

\* st.dataframe(symbol_df.tail(10)); the line plot of symbol_df; st.pyplot(fig)
Present ==
  /\ pc = "filtered"
  /\ out' = out \o <<Subheader("Recent Stock Data"), DataTable(TailRows(symbol_df, TailN)),
                     Subheader("Closing Price History"), Pyplot(selected_symbol, symbol_df)>>
  /\ pc' = "rendered"
  /\ seen' = seen \cup {[table |-> df, category |-> selected_category,
                         symbol |-> selected_symbol, out |-> out']}
  /\ UNCHANGED <<fs, cache, reads, session, exc, locals, first_return, existed_at_load>>

\* the environment removes the file at file_path
DeleteFile ==
  /\ exists
  /\ exists' = FALSE
  /\ UNCHANGED <<content, appends, cache, reads, session, pc, exc, locals, out, ghost>>

\* the environment puts the file at file_path
CreateFile ==
  /\ ~exists
  /\ exists' = TRUE
  /\ UNCHANGED <<content, appends, cache, reads, session, pc, exc, locals, out, ghost>>

\* the environment appends the next day's quote of the last stock to the file
AppendRow ==
  /\ exists
  /\ content.format = "csv"
  /\ Len(content.rows) >= 1
  /\ appends < MaxAppends
  /\ appends' = appends + 1
  /\ LET n == Len(content.rows) IN
       content' = [content EXCEPT !.rows =
                     Append(@, [@[n] EXCEPT !.idx = n, !.Date = RawDate(n + 1)])]
  /\ UNCHANGED <<exists, cache, reads, session, pc, exc, locals, out, ghost>>

Next ==
  \/ Rerun
  \/ ChooseCategory
  \/ ChooseSymbol
  \/ LoadData
  \/ ShowError
  \/ SelectCategory
  \/ SelectSymbol
  \/ FilterSymbol
  \/ Present
  \/ DeleteFile
  \/ CreateFile
  \/ AppendRow

Spec == Init /\ [][Next]_vars

(* ------------------------- vocabulary of the claims ------------------- *)

\* the run has loaded a table
HasTable == df.kind = "DataFrame"
\* the run has a table and has applied the Category filter
CategoryFiltered == HasTable /\ pc \in {"symbol", "filtered", "rendered"}
\* the run has a table and has applied the Symbol filter
SymbolFiltered == HasTable /\ pc \in {"filtered", "rendered"}
\* the run has drawn everything for a table
Presented == HasTable /\ pc = "rendered"

SeqToSet(s) == { s[i] : i \in 1..Len(s) }
Min(a, b) == IF a <= b THEN a ELSE b
\* rows in file order, none twice
InFileOrder(rows) == \A i, j \in 1..Len(rows) : i < j => rows[i].idx < rows[j].idx
\* the rows the 'Recent Stock Data' table shows
TableView == ElsOf(out, "dataframe")[1].rows
\* the points handed to the line plot
ChartData == ElsOf(out, "pyplot")[1].data
\* calendar order of two Date cells of the file
TextEarlier(a, b) ==
  \/ a.y < b.y
  \/ a.y = b.y /\ a.m < b.m
  \/ a.y = b.y /\ a.m = b.m /\ a.d < b.d
\* what the error branch draws
ErrorView == <<Title, ErrorBox, InfoBox(file_path)>>

(* -------------------------------- C1 ---------------------------------- *)

\* C1: the symbol-filtered table that is displayed is exactly the rows of the
\* Category-filtered table with Symbol == selected_symbol: no displayed row,
\* in the table view or in the chart, has another Category
C1_SymbolViewWithinCategory ==
  /\ SymbolFiltered =>
       /\ symbol_df = SelectSeq(category_df, LAMBDA r : r.Symbol = selected_symbol)
       /\ \A i \in 1..Len(symbol_df) : symbol_df[i].Category = selected_category
  /\ Presented =>
       /\ \A i \in 1..Len(TableView) : TableView[i].Category = selected_category
       /\ \A i \in 1..Len(ChartData) :
            \E k \in 1..Len(category_df) : category_df[k].idx = ChartData[i].idx

(* -------------------------------- C2 ---------------------------------- *)

\* C2: category_df holds exactly the rows of the table with
\* Category == selected_category, each once and in file order, and is empty
\* (no failure) when no row has that category
C2_CategoryFilterExact ==
  CategoryFiltered =>
    /\ \A i \in 1..Len(category_df) :
         /\ category_df[i].Category = selected_category
         /\ category_df[i].idx + 1 \in 1..Len(df.rows)
         /\ category_df[i] = df.rows[category_df[i].idx + 1]
    /\ InFileOrder(category_df)
    /\ \A j \in 1..Len(df.rows) :
         df.rows[j].Category = selected_category => df.rows[j] \in SeqToSet(category_df)
    /\ (\A j \in 1..Len(df.rows) : df.rows[j].Category # selected_category)
         => category_df = << >>

\* the filter kept some rows and dropped others
C2_Witness ==
  /\ CategoryFiltered
  /\ Len(category_df) >= 2
  /\ Len(category_df) < Len(df.rows)
  /\ \E i \in 1..(Len(category_df) - 1) : category_df[i + 1].idx > category_df[i].idx + 1

(* -------------------------------- C3 ---------------------------------- *)

\* C3: the 'Recent Stock Data' view of a symbol-filtered table of n rows is
\* its last min(10, n) rows, in file order
C3_RecentRowsAreTail ==
  Presented =>
    LET n == Len(symbol_df)
        m == Len(TableView) IN
      /\ m = Min(10, n)
      /\ m <= 10 /\ m <= n
      /\ \A k \in 1..m : TableView[k] = symbol_df[n - m + k]
      /\ InFileOrder(TableView)

\* a symbol with more than 10 rows, whose dates are not in file order
C3_Witness ==
  /\ Presented
  /\ Len(symbol_df) > 10
  /\ Len(TableView) = 10
  /\ \E k \in 1..9 : TableView[k + 1].Date.ord < TableView[k].Date.ord

(* -------------------------------- C4 ---------------------------------- *)

\* C4 as stated: whenever the file is absent when a run loads the data, the
\* finished render is the error message and the hint and nothing else; and a
\* table, a chart or a selection control is only drawn when the load returned
\* a table
C4_AbsentFileShowsError ==
  /\ (pc = "rendered" /\ ~existed_at_load) => out = ErrorView
  /\ (HasEl(out, "dataframe") \/ HasEl(out, "pyplot") \/ HasEl(out, "selectbox"))
       => HasTable

\* C4 as amended: whenever load_data returns None to a run, the finished
\* render is the title, the error message and the hint naming file_path and
\* nothing else, and no later step draws anything; a selection control, a
\* table or a chart is only drawn in a run whose load returned a table
C4_SentinelShowsError ==
  /\ (pc = "rendered" /\ df = None) =>
       /\ out = ErrorView
       /\ ~HasEl(out, "selectbox") /\ ~HasEl(out, "dataframe") /\ ~HasEl(out, "pyplot")
  /\ (pc = "loaded" /\ df = None) => (ENABLED ShowError /\ ~ENABLED SelectCategory)
  /\ (HasEl(out, "dataframe") \/ HasEl(out, "pyplot") \/ HasEl(out, "selectbox"))
       => HasTable

\* a finished render of the error branch, the file absent at its load
C4_Witness ==
  /\ pc = "rendered"
  /\ df = None
  /\ ~existed_at_load
  /\ HasEl(out, "error") /\ HasEl(out, "info")

(* -------------------------------- C5 ---------------------------------- *)

\* C5 as stated: the body of load_data runs at most once for the path in a
\* process, and every call after the first returns the first call's result
C5_ReadsAtMostOnce ==
  /\ reads <= 1
  /\ (pc = "loaded" /\ first_return # Unset) => df = first_return

\* C5 as amended: once a call of load_data with the path has returned a
\* result, the table or None, no later call runs the body (reads the file)
\* and every later call returns that same result; a call that raises stores
\* nothing and the next call reads the file again
C5_OneReadPerReturnedResult ==
  /\ [](first_return # Unset => reads >= 1 /\ cache[file_path] = first_return)
  /\ []((pc = "loaded" /\ first_return # Unset) => df = first_return)
  /\ [][first_return # Unset => reads' = reads]_vars
  /\ [][(pc = "run" /\ pc' = "failed") => (reads' = reads + 1 /\ cache' = cache)]_vars

\* a later run got the table from the cache: one read, and the file has grown
\* since
C5_Witness ==
  /\ pc = "loaded"
  /\ seen # {}
  /\ reads = 1
  /\ HasTable
  /\ df = first_return
  /\ Len(content.rows) > Len(df.rows)

(* -------------------------------- C6 ---------------------------------- *)

\* a file that read_csv and to_datetime accept
Parsable(f) ==
  /\ f.format = "csv"
  /\ "Date" \in f.columns
  /\ \A i \in 1..Len(f.rows) :
       f.rows[i].Date.m \in 1..12 /\ f.rows[i].Date.d \in 1..31

\* table t is file f with the Date cells made chronological values
ConvertedFrom(t, f) ==
  /\ t.kind = "DataFrame"
  /\ Len(t.rows) = Len(f.rows)
  /\ \A i \in 1..Len(f.rows) :
       /\ t.rows[i].Date.type = "datetime64"
       /\ [t.rows[i] EXCEPT !.Date = f.rows[i].Date] = f.rows[i]
  /\ \A i, j \in 1..Len(f.rows) :
       TextEarlier(f.rows[i].Date, f.rows[j].Date)
         <=> t.rows[i].Date.ord < t.rows[j].Date.ord

\* C6: a call of load_data that runs the body returns None when the file is
\* missing and the table with Date converted when the file parses; every
\* other failure is raised and ends the run with nothing but the title drawn
C6_OnlyMissingFileIsCaught ==
  [][(pc = "run" /\ pc' # "run" /\ reads' = reads + 1) =>
       IF ~exists THEN pc' = "loaded" /\ df' = None
       ELSE IF Parsable(content) THEN pc' = "loaded" /\ ConvertedFrom(df', content)
       ELSE /\ pc' = "failed"
            /\ exc'.kind \in {"ParserError", "KeyError", "ValueError"}
            /\ out' = <<Title>>
            /\ df' = Unset
            /\ cache' = cache]_vars

\* a run ended by an unparsable date in a file that exists
C6_Witness ==
  /\ pc = "failed"
  /\ exc.kind = "ValueError"
  /\ existed_at_load
  /\ out = <<Title>>

(* -------------------------------- C7 ---------------------------------- *)

\* C7: on a non-empty table the Symbol control offers exactly the distinct
\* symbols of the rows of the selected category, the selected symbol is one
\* of them, the selected pair occurs together in a row of the table, and the
\* displayed table is not empty
C7_SymbolBelongsToCategory ==
  (CategoryFiltered /\ df.rows # << >>) =>
    /\ SeqToSet(symbol_list) =
         { df.rows[j].Symbol : j \in { k \in 1..Len(df.rows) :
                                         df.rows[k].Category = selected_category } }
    /\ \A i, j \in 1..Len(symbol_list) : i # j => symbol_list[i] # symbol_list[j]
    /\ ElsOf(out, "selectbox")[2].options = symbol_list
    /\ ElsOf(out, "selectbox")[2].value = selected_symbol
    /\ selected_symbol \in SeqToSet(symbol_list)
    /\ \E j \in 1..Len(df.rows) :
         df.rows[j].Category = selected_category /\ df.rows[j].Symbol = selected_symbol
    /\ Presented => TableView # << >>

\* a render after a category change: the symbol shown by an earlier render
\* is not a symbol of the category selected now
C7_Witness ==
  /\ Presented
  /\ \E r \in seen :
       /\ r.category # selected_category
       /\ r.symbol \notin SeqToSet(symbol_list)
       /\ r.symbol \in SeqToSet(SymbolColumn(df.rows))

(* -------------------------------- C8 ---------------------------------- *)

\* C8: a change of a selection control starts a run from the top with
\* nothing drawn and no variable assigned, and two finished renders of the
\* same table with the same selection drew the same output
C8_RenderIsFunctionOfSelection ==
  /\ [](\A a, b \in seen :
          (a.table = b.table /\ a.category = b.category /\ a.symbol = b.symbol)
            => a.out = b.out)
  /\ [][(pc = "rendered" /\ (cat_widget' # cat_widget \/ sym_widget' # sym_widget)) =>
          /\ pc' = "run"
          /\ out' = << >>
          /\ df' = Unset
          /\ category_df' = << >> /\ symbol_df' = << >>
          /\ selected_category' = NotBound /\ selected_symbol' = NotBound]_vars

\* the selection of the first render is rendered again after renders of two
\* other selections
C8_Witness ==
  /\ Presented
  /\ Cardinality(seen) >= 3
  /\ cat_widget.index = 1 /\ sym_widget.index = 1
  /\ \E r \in seen : r.category # selected_category
  /\ \E r \in seen : r.category = selected_category /\ r.symbol # selected_symbol

(* -------------------------------- C9 ---------------------------------- *)

\* C9: the table load_data first returned is the table the cache holds and
\* the table every later step of every run works on: same rows, same order,
\* same values
C9_TableUnchanged ==
  first_return.kind = "DataFrame" =>
    /\ cache[file_path] = first_return
    /\ pc \in {"loaded", "category", "symbol", "filtered", "rendered"} => df = first_return

\* a finished render after selection changes, the file rewritten meanwhile
C9_Witness ==
  /\ Presented
  /\ Cardinality(seen) >= 2
  /\ Len(symbol_df) < Len(df.rows)
  /\ appends > 0
  /\ df = first_return

(* -------------------------------- C10 --------------------------------- *)

\* C10: once load_data has returned None for the path, no later call reads
\* the file, every later call returns None and every later finished render
\* is the error view, whether or not the file exists by then
C10_NotFoundIsMemoized ==
  /\ [](first_return = None =>
          /\ cache[file_path] = None
          /\ pc # "failed"
          /\ pc \in {"loaded", "rendered"} => df = None
          /\ pc = "rendered" => out = ErrorView)
  /\ [][first_return = None => reads' = reads]_vars

\* the error view drawn by a run that found the file in place
C10_Witness ==
  /\ pc = "rendered"
  /\ first_return = None
  /\ existed_at_load /\ exists
  /\ Parsable(content)
  /\ out = ErrorView
  /\ reads = 1

====
